---- MODULE Spec2Model ----
(***************************************************************************)
(* Face attendance client: the attendance view (FaceAttendanceSystem,      *)
(* src/unnamed/part_000) and the registration view (FaceRegister,          *)
(* src/unnamed/part_001) as state machines over the browser's event loop.  *)
(* One action is one macrotask: a user event, a timer firing, a promise    *)
(* of the platform settling, together with every microtask continuation    *)
(* that runs before the next macrotask.                                    *)
(***************************************************************************)
EXTENDS Integers, Sequences, FiniteSets, TLC

\* ---------------------------------------------------------------- bounds
MaxStarts == 2      \* start commands issued in one run of the attendance view
MaxInflight == 2    \* ticks of the attendance view whose capture or request is unsettled
MaxLog == 2         \* attendance records appended in one run
MaxAcq == 4         \* getUserMedia calls of one FaceRegister instance
MaxCaptures == 11   \* object URLs created in one run of the registration form
MaxPendingBlobs == 2 \* toBlob callbacks of captureImage outstanding at once
MaxNow == 1         \* last value of the millisecond clock
MaxRegImages == 2   \* images pending when the submit actions of the form are explored

MaxImages == 10     \* captureImage: cap of the pending list

Users == {"u1", "u2"}   \* user_id values the backend may report
UserIds == {"", " ", "u1"}   \* contents of the user id input

\* ----------------------------------------------------------------- state
VARIABLES
    \* attendance view (part_000)
    isCapturing,     \* useState isCapturing; the <video> element is mounted iff TRUE
    attendanceLog,   \* useState attendanceLog, newest first (sequence of user ids)
    error,           \* useState error: "none", "camera", "verify"
    processing,      \* useState processing
    toast,           \* last react-toastify notification: "none", "success", "error"
    streamRef,       \* streamRef.current: 0 is null, else a stream
    liveStreams,     \* streams that still have a live track (the device is held)
    intervalRef,     \* intervalRef.current: 0 is null, else a timer handle
    armedTimers,     \* interval timers of the window that have not been cleared
    srcObject,       \* videoRef.current.srcObject: 0 is null or no element
    videoReady,      \* videoRef.current.readyState >= 2
    onloadeddata,    \* invocation whose promise videoRef.current.onloadeddata resolves, 0 none
    flow,            \* position of each startAttendance invocation
    starts,          \* startAttendance invocations so far
    encoding,        \* ticks awaiting canvas.toBlob
    inflight,        \* POST /verify requests not yet settled
    stopped,         \* history: the last command of the user was Stop
    \* registration view (part_001)
    view,            \* lifecycle of FaceRegister: "new", "mounted", "unmounted"
    facingMode,      \* useState facingMode
    videoStreamRef,  \* videoStreamRef.current: 0 is null, else a stream
    regLive,         \* streams of the registration view that still have a live track
    regSrcObject,    \* videoRef.current.srcObject: 0 is null
    stremLoaded,     \* useState stremLoaded
    acq,             \* state of each getUserMedia call of the registration view
    acqs,            \* getUserMedia calls so far
    capturedImages,  \* useState capturedImages: sequence of image ids (Date.now())
    pendingBlobs,    \* canvas.toBlob callbacks of captureImage not yet run
    objectUrls,      \* object URLs created and not revoked
    now,             \* Date.now()
    userId,          \* useState userId
    isLoading,       \* useState isLoading
    message,         \* useState message
    verificationResult, \* useState verificationResult
    requests,        \* POST /register requests of the last registerUser call
    regOutcome,      \* what that call has reported: "none", "waiting", "success", "error"
    verifyPhase,     \* position of verifyFace: "idle", "toBlob", "fetch"
    last             \* history: name of the last step taken

attVars == << isCapturing, attendanceLog, error, processing, toast, streamRef,
              liveStreams, intervalRef, armedTimers, srcObject, videoReady,
              onloadeddata, flow, starts, encoding, inflight, stopped >>

camVars == << view, facingMode, videoStreamRef, regLive, regSrcObject,
              stremLoaded, acq, acqs >>

submitVars == << requests, regOutcome, verifyPhase >>

formVars == << capturedImages, pendingBlobs, objectUrls, now, userId,
               isLoading, verificationResult, submitVars >>

regVars == << camVars, formVars, message >>

vars == << attVars, regVars, last >>

Flows == 1..MaxStarts
Acqs == 1..MaxAcq

\* ------------------------------------------------ attendance view: helpers

\* stopCamera of the attendance view.
stopCamera ==
    /\ liveStreams' = liveStreams \ {streamRef}
    /\ streamRef' = 0
    /\ srcObject' = 0

\* stopAttendance; the re-render that follows setIsCapturing(false) unmounts
\* the <video> element.
stopAttendance ==
    /\ isCapturing' = FALSE
    /\ stopCamera
    /\ videoReady' = FALSE
    /\ onloadeddata' = 0
    /\ armedTimers' = armedTimers \ {intervalRef}
    /\ intervalRef' = 0

\* window.setInterval(...) of invocation f: a new timer whose handle
\* overwrites intervalRef.current.
armTimer(f) ==
    /\ intervalRef' = f
    /\ armedTimers' = armedTimers \cup {f}
    /\ flow' = [flow EXCEPT ![f] = "done"]

\* startAttendance after `await startCamera()`: wait for the video to be
\* ready, then arm the timer.  ready is readyState >= 2 at that point.
waitForVideo(f, mounted, ready) ==
    IF mounted /\ ~ready
    THEN /\ onloadeddata' = f
         /\ flow' = [flow EXCEPT ![f] = "waitLoaded"]
         /\ UNCHANGED << intervalRef, armedTimers >>
    ELSE /\ armTimer(f)
         /\ UNCHANGED onloadeddata

\* ------------------------------------------------ attendance view: actions

\* Click on "Start Face Attendance" (rendered only while !isCapturing).
startAttendance ==
    /\ ~isCapturing
    /\ starts < MaxStarts
    /\ starts' = starts + 1
    /\ isCapturing' = TRUE
    /\ flow' = [flow EXCEPT ![starts + 1] = "delay"]
    /\ stopped' = FALSE
    /\ last' = "startAttendance"
    /\ UNCHANGED regVars
    /\ UNCHANGED << attendanceLog, error, processing, toast, streamRef,
                    liveStreams, intervalRef, armedTimers, srcObject,
                    videoReady, onloadeddata, encoding, inflight >>

\* The 100 ms timeout elapses: startCamera runs up to getUserMedia.
delayElapsed(f) ==
    /\ flow[f] = "delay"
    /\ flow' = [flow EXCEPT ![f] = "getUserMedia"]
    /\ error' = "none"
    /\ last' = "delayElapsed"
    /\ UNCHANGED regVars
    /\ UNCHANGED << isCapturing, attendanceLog, processing, toast, streamRef,
                    liveStreams, intervalRef, armedTimers, srcObject,
                    videoReady, onloadeddata, starts, encoding, inflight,
                    stopped >>

\* getUserMedia resolves with a stream; the stream's id is the invocation's.
cameraGranted(f) ==
    /\ flow[f] = "getUserMedia"
    /\ streamRef' = f
    /\ liveStreams' = liveStreams \cup {f}
    /\ IF isCapturing
       THEN /\ srcObject' = f
            /\ videoReady' = FALSE
            /\ UNCHANGED error
       ELSE /\ error' = "camera"     \* "Video element not available"
            /\ UNCHANGED << srcObject, videoReady >>
    /\ waitForVideo(f, isCapturing, FALSE)
    /\ last' = "cameraGranted"
    /\ UNCHANGED regVars
    /\ UNCHANGED << isCapturing, attendanceLog, processing, toast, starts,
                    encoding, inflight, stopped >>

\* getUserMedia rejects (permission denied, no device).
cameraDenied(f) ==
    /\ flow[f] = "getUserMedia"
    /\ error' = "camera"
    /\ waitForVideo(f, isCapturing, videoReady)
    /\ last' = "cameraDenied"
    /\ UNCHANGED regVars
    /\ UNCHANGED << isCapturing, attendanceLog, processing, toast, streamRef,
                    liveStreams, srcObject, videoReady, starts, encoding,
                    inflight, stopped >>

\* The <video> element fires loadeddata for its bound stream.
loadedData ==
    /\ isCapturing
    /\ srcObject # 0
    /\ srcObject \in liveStreams
    /\ ~videoReady
    /\ videoReady' = TRUE
    /\ IF onloadeddata # 0
       THEN armTimer(onloadeddata)
       ELSE UNCHANGED << intervalRef, armedTimers, flow >>
    /\ onloadeddata' = 0
    /\ last' = "loadedData"
    /\ UNCHANGED regVars
    /\ UNCHANGED << isCapturing, attendanceLog, error, processing, toast,
                    streamRef, liveStreams, srcObject, starts, encoding,
                    inflight, stopped >>

\* An armed interval timer fires: captureFrame.  Without a <video> element
\* captureFrame returns null; with an element that has no frame yet the
\* canvas is 0 x 0 and toBlob yields null; either way sendFrameToBackend
\* returns at once and the tick changes nothing.
tick(t) ==
    /\ t \in armedTimers
    /\ encoding + inflight < MaxInflight
    /\ IF isCapturing /\ videoReady
       THEN encoding' = encoding + 1      \* canvas.toBlob requested
       ELSE UNCHANGED encoding
    /\ last' = "tick"
    /\ UNCHANGED regVars
    /\ UNCHANGED << isCapturing, attendanceLog, error, processing, toast,
                    streamRef, liveStreams, intervalRef, armedTimers,
                    srcObject, videoReady, onloadeddata, flow, starts,
                    inflight, stopped >>

\* canvas.toBlob calls back; sendFrameToBackend up to the fetch.
frameEncoded(hasBlob) ==
    /\ encoding > 0
    /\ encoding' = encoding - 1
    /\ IF hasBlob
       THEN /\ processing' = TRUE
            /\ inflight' = inflight + 1
       ELSE UNCHANGED << processing, inflight >>
    /\ last' = IF hasBlob THEN "submit" ELSE "captureSkipped"
    /\ UNCHANGED regVars
    /\ UNCHANGED << isCapturing, attendanceLog, error, toast, streamRef,
                    liveStreams, intervalRef, armedTimers, srcObject,
                    videoReady, onloadeddata, flow, starts, stopped >>

\* Variant of the verified branch that adds the record at the tail of the log.
verifiedResponseAtTail(u) ==
    /\ inflight > 0
    /\ Len(attendanceLog) < MaxLog
    /\ inflight' = inflight - 1
    /\ processing' = FALSE
    /\ toast' = "success"
    /\ attendanceLog' = Append(attendanceLog, u)
    /\ stopAttendance
    /\ last' = "verified"
    /\ UNCHANGED regVars
    /\ UNCHANGED << error, flow, starts, encoding, stopped >>

\* POST /verify answers 2xx with verified = true.
verifiedResponse(u) ==
    /\ inflight > 0
    /\ Len(attendanceLog) < MaxLog
    /\ inflight' = inflight - 1
    /\ processing' = FALSE
    /\ toast' = "success"
    /\ attendanceLog' = << u >> \o attendanceLog
    /\ stopAttendance
    /\ last' = "verified"
    /\ UNCHANGED regVars
    /\ UNCHANGED << error, flow, starts, encoding, stopped >>

\* Variant of the not-verified branch that stops the loop.
notVerifiedStops ==
    /\ inflight > 0
    /\ inflight' = inflight - 1
    /\ processing' = FALSE
    /\ toast' = "error"
    /\ stopAttendance
    /\ last' = "notVerified"
    /\ UNCHANGED regVars
    /\ UNCHANGED << attendanceLog, error, flow, starts, encoding, stopped >>

\* POST /verify answers 2xx with verified = false.
notVerifiedResponse ==
    /\ inflight > 0
    /\ inflight' = inflight - 1
    /\ processing' = FALSE
    /\ toast' = "error"
    /\ last' = "notVerified"
    /\ UNCHANGED regVars
    /\ UNCHANGED << isCapturing, attendanceLog, error, streamRef, liveStreams,
                    intervalRef, armedTimers, srcObject, videoReady,
                    onloadeddata, flow, starts, encoding, stopped >>

\* Variant of the catch block that swallows the error.
verifyFailedSilent ==
    /\ inflight > 0
    /\ inflight' = inflight - 1
    /\ processing' = FALSE
    /\ last' = "verifyFailed"
    /\ UNCHANGED regVars
    /\ UNCHANGED << isCapturing, attendanceLog, error, toast, streamRef,
                    liveStreams, intervalRef, armedTimers, srcObject,
                    videoReady, onloadeddata, flow, starts, encoding, stopped >>

\* Variant of the catch block that also stops the loop.
verifyFailedStops ==
    /\ inflight > 0
    /\ inflight' = inflight - 1
    /\ processing' = FALSE
    /\ error' = "verify"
    /\ stopAttendance
    /\ last' = "verifyFailed"
    /\ UNCHANGED regVars
    /\ UNCHANGED << attendanceLog, toast, flow, starts, encoding, stopped >>

\* POST /verify answers non-2xx or the fetch rejects: the catch block.
verifyFailed ==
    /\ inflight > 0
    /\ inflight' = inflight - 1
    /\ processing' = FALSE
    /\ error' = "verify"
    /\ last' = "verifyFailed"
    /\ UNCHANGED regVars
    /\ UNCHANGED << isCapturing, attendanceLog, toast, streamRef, liveStreams,
                    intervalRef, armedTimers, srcObject, videoReady,
                    onloadeddata, flow, starts, encoding, stopped >>

\* Click on "Stop Attendance" (rendered only while isCapturing).
userStop ==
    /\ isCapturing
    /\ stopAttendance
    /\ stopped' = TRUE
    /\ last' = "userStop"
    /\ UNCHANGED regVars
    /\ UNCHANGED << attendanceLog, error, processing, toast, flow, starts,
                    encoding, inflight >>

InitAtt ==
    /\ isCapturing = FALSE
    /\ attendanceLog = << >>
    /\ error = "none"
    /\ processing = FALSE
    /\ toast = "none"
    /\ streamRef = 0
    /\ liveStreams = {}
    /\ intervalRef = 0
    /\ armedTimers = {}
    /\ srcObject = 0
    /\ videoReady = FALSE
    /\ onloadeddata = 0
    /\ flow = [f \in Flows |-> "unused"]
    /\ starts = 0
    /\ encoding = 0
    /\ inflight = 0
    /\ stopped = FALSE

\* FaceRegister before its first commit.
InitRegNew ==
    /\ view = "new"
    /\ facingMode = "user"
    /\ videoStreamRef = 0
    /\ regLive = {}
    /\ regSrcObject = 0
    /\ stremLoaded = FALSE
    /\ acq = [a \in Acqs |-> "unused"]
    /\ acqs = 0
    /\ capturedImages = << >>
    /\ pendingBlobs = 0
    /\ objectUrls = 0
    /\ now = 0
    /\ userId = ""
    /\ isLoading = FALSE
    /\ message = "none"
    /\ verificationResult = "null"
    /\ requests = << >>
    /\ regOutcome = "none"
    /\ verifyPhase = "idle"

SystemAtt ==
    \/ \E f \in Flows : delayElapsed(f)
    \/ \E f \in Flows : cameraGranted(f)
    \/ \E f \in Flows : cameraDenied(f)
    \/ loadedData
    \/ \E t \in Flows : tick(t)
    \/ \E b \in BOOLEAN : frameEncoded(b)
    \/ \E u \in Users : verifiedResponse(u)
    \/ notVerifiedResponse
    \/ verifyFailed

NextAtt ==
    \/ startAttendance
    \/ userStop
    \/ SystemAtt

InitAttView == InitAtt /\ InitRegNew /\ last = "init"

SpecAtt == InitAttView /\ [][NextAtt]_vars

\* --------------------------------------- registration view: camera session

\* The facing mode getUserMedia call a asks for: the value of facingMode in
\* the render whose effect made the call.  The first call is made by the
\* mount with "user"; every later call follows one flip of toggleCamera.
facingModeOf(a) == IF a % 2 = 1 THEN "user" ELSE "environment"

\* stopCamera of the registration view: the tracks of videoStreamRef.current
\* are stopped, the ref itself is kept.
stopCameraReg ==
    /\ regLive' = regLive \ {videoStreamRef}
    /\ stremLoaded' = FALSE
    /\ regSrcObject' = 0

\* startCamera of the registration view up to getUserMedia.
startCameraReg ==
    /\ IF videoStreamRef # 0
       THEN stopCameraReg
       ELSE UNCHANGED << regLive, stremLoaded, regSrcObject >>
    /\ acqs' = acqs + 1
    /\ acq' = [acq EXCEPT ![acqs + 1] = "pending"]

\* The effect's cleanup (stopCamera) followed by the effect (startCamera):
\* the stop inside startCamera repeats what the cleanup has just done.
restartCameraReg ==
    /\ stopCameraReg
    /\ acqs' = acqs + 1
    /\ acq' = [acq EXCEPT ![acqs + 1] = "pending"]

\* First commit of FaceRegister: the effect of [facingMode] runs.
mountView ==
    /\ view = "new"
    /\ view' = "mounted"
    /\ startCameraReg
    /\ last' = "mountView"
    /\ UNCHANGED << facingMode, videoStreamRef, formVars, message, attVars >>

\* Click on the switch-camera button: facingMode flips, the effect's cleanup
\* (stopCamera) and then the effect (startCamera) run.
toggleCamera ==
    /\ view = "mounted"
    /\ acqs < MaxAcq
    /\ facingMode' = IF facingMode = "user" THEN "environment" ELSE "user"
    /\ restartCameraReg
    /\ last' = "toggleCamera"
    /\ UNCHANGED << view, videoStreamRef, formVars, message, attVars >>

\* The route changes: FaceRegister unmounts and the effect's cleanup runs.
unmountView ==
    /\ view = "mounted"
    /\ view' = "unmounted"
    /\ stopCameraReg
    /\ last' = "unmountView"
    /\ UNCHANGED << facingMode, videoStreamRef, acq, acqs, formVars, message,
                    attVars >>

\* getUserMedia of call a resolves with a stream (named a).
regCameraGranted(a) ==
    /\ acq[a] = "pending"
    /\ acq' = [acq EXCEPT ![a] = "settled"]
    /\ videoStreamRef' = a
    /\ regLive' = regLive \cup {a}
    /\ IF view = "mounted"
       THEN stremLoaded' = TRUE /\ regSrcObject' = a
       ELSE UNCHANGED << stremLoaded, regSrcObject >>
    /\ last' = "regCameraGranted"
    /\ UNCHANGED << view, facingMode, acqs, formVars, message, attVars >>

\* getUserMedia of call a rejects: the catch block sets the message.
regCameraDenied(a) ==
    /\ acq[a] = "pending"
    /\ acq' = [acq EXCEPT ![a] = "settled"]
    /\ message' = IF view = "mounted" THEN "cameraError" ELSE message
    /\ last' = "regCameraDenied"
    /\ UNCHANGED << view, facingMode, videoStreamRef, regLive, regSrcObject,
                    stremLoaded, acqs, formVars, attVars >>

NextCam ==
    \/ mountView
    \/ toggleCamera
    \/ unmountView
    \/ \E a \in Acqs : regCameraGranted(a)
    \/ \E a \in Acqs : regCameraDenied(a)

InitCamView == InitAtt /\ InitRegNew /\ last = "init"

SpecCam == InitCamView /\ [][NextCam]_vars

\* ------------------------------------------------ registration view: form

\* removeImage: the images whose id is not imageId, in their order.
removeImage(images, imageId) == SelectSeq(images, LAMBDA id : id # imageId)

\* Variant of captureImage whose cap check is off by one.
captureImageOffByOne ==
    IF Len(capturedImages) > MaxImages
    THEN /\ message' = "maxImages"
         /\ UNCHANGED pendingBlobs
    ELSE /\ pendingBlobs' = pendingBlobs + 1
         /\ UNCHANGED message

\* captureImage up to canvas.toBlob.
captureImage ==
    IF Len(capturedImages) >= MaxImages
    THEN /\ message' = "maxImages"
         /\ UNCHANGED pendingBlobs
    ELSE /\ pendingBlobs' = pendingBlobs + 1
         /\ UNCHANGED message

\* Click on "Take Photo" (disabled while loading, without a stream, or with
\* ten images shown).
clickTakePhoto ==
    /\ view = "mounted"
    /\ ~isLoading /\ stremLoaded /\ Len(capturedImages) < MaxImages
    /\ pendingBlobs < MaxPendingBlobs
    /\ objectUrls + pendingBlobs < MaxCaptures
    /\ captureImage
    /\ last' = "captureImage"
    /\ UNCHANGED submitVars
    /\ UNCHANGED << capturedImages, objectUrls, now, userId, isLoading,
                    verificationResult, camVars, attVars >>

\* captureImage called with the list at its cap: the call that the check at
\* the head of captureImage answers (the Take Photo button is shown disabled
\* then).
captureAtCapacity ==
    /\ view = "mounted"
    /\ Len(capturedImages) >= MaxImages
    /\ pendingBlobs < MaxPendingBlobs
    /\ captureImage
    /\ last' = "captureImage"
    /\ UNCHANGED submitVars
    /\ UNCHANGED << capturedImages, objectUrls, now, userId, isLoading,
                    verificationResult, camVars, attVars >>

\* canvas.toBlob calls back with a blob (or with null).
blobReady(hasBlob) ==
    /\ pendingBlobs > 0
    /\ pendingBlobs' = pendingBlobs - 1
    /\ IF hasBlob
       THEN /\ capturedImages' = Append(capturedImages, now)
            /\ objectUrls' = objectUrls + 1
            /\ message' = "captured"
       ELSE UNCHANGED << capturedImages, objectUrls, message >>
    /\ last' = IF hasBlob THEN "blobReady" ELSE "blobNull"
    /\ UNCHANGED submitVars
    /\ UNCHANGED << now, userId, isLoading, verificationResult, camVars,
                    attVars >>

\* Click on the remove button of the i-th image shown.
clickRemove(i) ==
    /\ view = "mounted"
    /\ i \in 1..Len(capturedImages)
    /\ capturedImages' = removeImage(capturedImages, capturedImages[i])
    /\ last' = "removeImage"
    /\ UNCHANGED submitVars
    /\ UNCHANGED << pendingBlobs, objectUrls, now, userId, isLoading,
                    verificationResult, message, camVars, attVars >>

\* Variant of resetForm that keeps the verification result.
resetFormKeepsResult ==
    /\ view = "mounted"
    /\ userId' = ""
    /\ capturedImages' = << >>
    /\ message' = "none"
    /\ last' = "resetForm"
    /\ UNCHANGED submitVars
    /\ UNCHANGED << pendingBlobs, objectUrls, now, isLoading,
                    verificationResult, camVars, attVars >>

\* Click on "Reset".
resetForm ==
    /\ view = "mounted"
    /\ userId' = ""
    /\ capturedImages' = << >>
    /\ message' = "none"
    /\ verificationResult' = "null"
    /\ last' = "resetForm"
    /\ UNCHANGED submitVars
    /\ UNCHANGED << pendingBlobs, objectUrls, now, isLoading, camVars,
                    attVars >>

\* Typing in the user id input.
setUserId(v) ==
    /\ view = "mounted"
    /\ userId # v
    /\ userId' = v
    /\ last' = "setUserId"
    /\ UNCHANGED submitVars
    /\ UNCHANGED << capturedImages, pendingBlobs, objectUrls, now, isLoading,
                    verificationResult, message, camVars, attVars >>

\* The millisecond clock advances.
clockTick ==
    /\ now < MaxNow
    /\ now' = now + 1
    /\ last' = "clockTick"
    /\ UNCHANGED submitVars
    /\ UNCHANGED << capturedImages, pendingBlobs, objectUrls, userId,
                    isLoading, verificationResult, message, camVars, attVars >>

NextReg ==
    \/ clickTakePhoto
    \/ captureAtCapacity
    \/ \E b \in BOOLEAN : blobReady(b)
    \/ \E i \in 1..(MaxImages + MaxPendingBlobs) : clickRemove(i)
    \/ resetForm
    \/ \E v \in UserIds : setUserId(v)
    \/ clockTick

\* FaceRegister mounted, its first getUserMedia call granted.
InitRegReady ==
    /\ view = "mounted"
    /\ facingMode = "user"
    /\ videoStreamRef = 1
    /\ regLive = {1}
    /\ regSrcObject = 1
    /\ stremLoaded = TRUE
    /\ acq = [a \in Acqs |-> IF a = 1 THEN "settled" ELSE "unused"]
    /\ acqs = 1
    /\ capturedImages = << >>
    /\ pendingBlobs = 0
    /\ objectUrls = 0
    /\ now = 0
    /\ userId = ""
    /\ isLoading = FALSE
    /\ message = "none"
    /\ verificationResult = "null"
    /\ requests = << >>
    /\ regOutcome = "none"
    /\ verifyPhase = "idle"

InitRegView == InitAtt /\ InitRegReady /\ last = "init"

SpecReg == InitRegView /\ [][NextReg]_vars

\* ---------------------------------------- registration view: submit actions

\* Variant of trim that strips nothing.
trimNothing(str) == str

\* String.prototype.trim on the contents the user id input can have.
trim(str) == IF str = " " THEN "" ELSE str

\* Variant that issues the request of the first image only.
fanOutFirstOnly(images, id) ==
    [i \in 1..1 |-> [id |-> id, image |-> images[i], status |-> "pending"]]

\* One POST /register per image of the list, all issued in the same run of
\* capturedImages.map, each with the user id as typed.
fanOut(images, id) ==
    [i \in 1..Len(images) |-> [id |-> id, image |-> images[i], status |-> "pending"]]

AnyPending(reqs) == \E i \in 1..Len(reqs) : reqs[i].status = "pending"
AnyFailed(reqs) == \E i \in 1..Len(reqs) : reqs[i].status = "failed"

\* registerUser up to `await Promise.all(...)`.  Requests of an earlier call
\* that are still in flight are dropped from `requests`: their settling
\* changes nothing any more.
registerUser ==
    IF trim(userId) = ""
    THEN /\ message' = "needUserId"
         /\ UNCHANGED << isLoading, requests, regOutcome >>
    ELSE IF Len(capturedImages) = 0
    THEN /\ message' = "needImage"
         /\ UNCHANGED << isLoading, requests, regOutcome >>
    ELSE /\ isLoading' = TRUE
         /\ message' = "registering"
         /\ requests' = fanOut(capturedImages, userId)
         /\ regOutcome' = "waiting"

\* Click on "Register User" (disabled while loading, without an image or
\* with a blank user id).
clickRegister ==
    /\ view = "mounted"
    /\ ~isLoading /\ Len(capturedImages) # 0 /\ trim(userId) # ""
    /\ registerUser
    /\ last' = "registerUser"
    /\ UNCHANGED << capturedImages, pendingBlobs, objectUrls, now, userId,
                    verificationResult, verifyPhase, camVars, attVars >>

\* registerUser called with a blank user id or without an image: the call
\* that the two checks at its head answer (the button is shown disabled
\* then).
registerInvalid ==
    /\ view = "mounted"
    /\ (trim(userId) = "" \/ Len(capturedImages) = 0)
    /\ registerUser
    /\ last' = "registerUser"
    /\ UNCHANGED << capturedImages, pendingBlobs, objectUrls, now, userId,
                    verificationResult, verifyPhase, camVars, attVars >>

\* POST /register of image i answers 2xx; Promise.all resolves when it was
\* the last one pending and none has failed.
registerOk(i) ==
    /\ i \in 1..Len(requests)
    /\ requests[i].status = "pending"
    /\ requests' = [requests EXCEPT ![i].status = "ok"]
    /\ IF regOutcome = "waiting" /\ ~AnyPending(requests')
       THEN /\ regOutcome' = "success"
            /\ message' = "registered"
            /\ isLoading' = FALSE
       ELSE UNCHANGED << regOutcome, message, isLoading >>
    /\ last' = "registerOk"
    /\ UNCHANGED << capturedImages, pendingBlobs, objectUrls, now, userId,
                    verificationResult, verifyPhase, camVars, attVars >>

\* Variant in which a failed request does not reject the whole call.
registerFailedSwallowed(i) ==
    /\ i \in 1..Len(requests)
    /\ requests[i].status = "pending"
    /\ requests' = [requests EXCEPT ![i].status = "failed"]
    /\ IF regOutcome = "waiting" /\ ~AnyPending(requests')
       THEN /\ regOutcome' = "success"
            /\ message' = "registered"
            /\ isLoading' = FALSE
       ELSE UNCHANGED << regOutcome, message, isLoading >>
    /\ last' = "registerFailed"
    /\ UNCHANGED << capturedImages, pendingBlobs, objectUrls, now, userId,
                    verificationResult, verifyPhase, camVars, attVars >>

\* POST /register of image i answers non-2xx or its fetch rejects: the
\* first rejection rejects Promise.all, the catch and finally blocks run.
registerFailed(i) ==
    /\ i \in 1..Len(requests)
    /\ requests[i].status = "pending"
    /\ requests' = [requests EXCEPT ![i].status = "failed"]
    /\ IF regOutcome = "waiting"
       THEN /\ regOutcome' = "error"
            /\ message' = "registerError"
            /\ isLoading' = FALSE
       ELSE UNCHANGED << regOutcome, message, isLoading >>
    /\ last' = "registerFailed"
    /\ UNCHANGED << capturedImages, pendingBlobs, objectUrls, now, userId,
                    verificationResult, verifyPhase, camVars, attVars >>

\* Variant whose early return without a context skips the finally block.
verifyFaceNoFinally(hasContext) ==
    IF videoStreamRef = 0
    THEN /\ message' = "noCamera"
         /\ UNCHANGED << isLoading, verifyPhase >>
    ELSE /\ message' = "verifying"
         /\ isLoading' = TRUE
         /\ IF hasContext
            THEN verifyPhase' = "toBlob"
            ELSE UNCHANGED verifyPhase

\* verifyFace up to `await new Promise(... canvas.toBlob ...)`; hasContext is
\* whether canvas.getContext("2d") gave a context.
verifyFace(hasContext) ==
    IF videoStreamRef = 0
    THEN /\ message' = "noCamera"
         /\ UNCHANGED << isLoading, verifyPhase >>
    ELSE /\ message' = "verifying"
         /\ IF hasContext
            THEN isLoading' = TRUE /\ verifyPhase' = "toBlob"
            ELSE isLoading' = FALSE /\ UNCHANGED verifyPhase  \* return, finally

\* Click on "Verify Face" (disabled while loading or without a stream).
clickVerify(hasContext) ==
    /\ view = "mounted"
    /\ ~isLoading /\ stremLoaded
    /\ verifyFace(hasContext)
    /\ last' = "verifyFace"
    /\ UNCHANGED << capturedImages, pendingBlobs, objectUrls, now, userId,
                    verificationResult, requests, regOutcome, camVars,
                    attVars >>

\* canvas.toBlob of verifyFace calls back; with a blob the fetch is issued,
\* without one the catch and finally blocks run.
verifyBlobReady(hasBlob) ==
    /\ verifyPhase = "toBlob"
    /\ IF hasBlob
       THEN /\ verifyPhase' = "fetch"
            /\ UNCHANGED << message, verificationResult, isLoading >>
       ELSE /\ verifyPhase' = "idle"
            /\ message' = "verifyError"
            /\ verificationResult' = "null"
            /\ isLoading' = FALSE
    /\ last' = "verifyBlobReady"
    /\ UNCHANGED << capturedImages, pendingBlobs, objectUrls, now, userId,
                    requests, regOutcome, camVars, attVars >>

\* POST /verify of verifyFace settles: "verified", "notVerified" (2xx) or
\* "failed" (non-2xx, network error).
verifyAnswered(outcome) ==
    /\ verifyPhase = "fetch"
    /\ verifyPhase' = "idle"
    /\ isLoading' = FALSE
    /\ verificationResult' = IF outcome = "failed" THEN "null" ELSE outcome
    /\ message' = CASE outcome = "verified" -> "verifySuccess"
                    [] outcome = "notVerified" -> "verifyFailed"
                    [] OTHER -> "verifyError"
    /\ last' = "verifyAnswered"
    /\ UNCHANGED << capturedImages, pendingBlobs, objectUrls, now, userId,
                    requests, regOutcome, camVars, attVars >>

NextSubmit ==
    \/ clickRegister
    \/ registerInvalid
    \/ \E i \in 1..MaxRegImages : registerOk(i)
    \/ \E i \in 1..MaxRegImages : registerFailed(i)
    \/ \E c \in BOOLEAN : clickVerify(c)
    \/ \E b \in BOOLEAN : verifyBlobReady(b)
    \/ \E o \in {"verified", "notVerified", "failed"} : verifyAnswered(o)
    \/ \E v \in UserIds : setUserId(v)
    \/ \E i \in 1..MaxRegImages : clickRemove(i)
    \/ resetForm

\* Lists of image ids that capture leaves pending: ids in the order of their
\* toBlob callbacks, hence never decreasing.
PendingLists ==
    { l \in UNION { [1..n -> 0..MaxNow] : n \in 0..MaxRegImages } :
          \A i \in 1..(Len(l) - 1) : l[i] <= l[i + 1] }

\* FaceRegister mounted, its camera granted, some images captured.
InitSubmit ==
    /\ view = "mounted"
    /\ facingMode = "user"
    /\ videoStreamRef = 1
    /\ regLive = {1}
    /\ regSrcObject = 1
    /\ stremLoaded = TRUE
    /\ acq = [a \in Acqs |-> IF a = 1 THEN "settled" ELSE "unused"]
    /\ acqs = 1
    /\ capturedImages \in PendingLists
    /\ pendingBlobs = 0
    /\ objectUrls = Len(capturedImages)
    /\ now = MaxNow
    /\ userId = ""
    /\ isLoading = FALSE
    /\ message = IF capturedImages = << >> THEN "none" ELSE "captured"
    /\ verificationResult = "null"
    /\ requests = << >>
    /\ regOutcome = "none"
    /\ verifyPhase = "idle"

InitSubmitView == InitAtt /\ InitSubmit /\ last = "init"

SpecSubmit == InitSubmitView /\ [][NextSubmit]_vars

\* ------------------------------------------------------------ properties

\* C1: at most one POST /verify request of the poller is in flight at any
\* time.
C1_AtMostOneInFlight == inflight <= 1

\* C2: a verified = true response appends exactly one record and leaves the
\* poller Idle with no timer armed and no camera held; every other step
\* leaves the log as it was.
C2_OneRecordThenIdle ==
    [][ /\ last' = "verified" =>
              /\ attendanceLog' = << Head(attendanceLog') >> \o attendanceLog
              /\ ~isCapturing'
              /\ intervalRef' = 0 /\ armedTimers' = {}
              /\ streamRef' = 0 /\ liveStreams' = {}
        /\ last' # "verified" => attendanceLog' = attendanceLog ]_vars

\* C3: from a stop command of the user until the next start command the
\* poller is Idle, no interval timer is armed and no camera track is live.
C3_StopLeavesIdle ==
    stopped => (~isCapturing /\ armedTimers = {} /\ liveStreams = {})

C5_CameraErrorReturnsToIdle ==
    (error = "camera" /\ ~ENABLED SystemAtt) =>
        (~isCapturing /\ armedTimers = {} /\ liveStreams = {})

\* C6: a /verify response that arrives while the poller is Idle appends no
\* record and changes neither the capturing flag, the timer nor the camera.
C6_LateResponseIgnored ==
    [][ (inflight' < inflight /\ ~isCapturing) =>
            UNCHANGED << attendanceLog, isCapturing, intervalRef,
                         armedTimers, streamRef, liveStreams >> ]_vars

\* C8: in the attendance view at most one camera stream has live tracks.
C8_OneLiveStream == Cardinality(liveStreams) <= 1

\* C7: in the registration view at most one camera stream has live tracks,
\* and after a stop the stream that was held has none.
C7_OneLiveStreamReg ==
    /\ Cardinality(regLive) <= 1
    /\ (last \in {"toggleCamera", "unmountView"} => videoStreamRef \notin regLive)

\* C9: the pending list never holds more than ten images.
C9_AtMostTenImages == Len(capturedImages) <= MaxImages

\* C10: the object URLs that are alive are exactly those of the pending
\* images: an image that left the list had its URL revoked, once.
C10_PreviewsReleased == objectUrls = Len(capturedImages)

\* C11: removeImage with an id that no pending image has leaves the list as
\* it is; the remove button of a pending image shortens the list by exactly
\* one and keeps the other images in their order.
C11_RemoveExactlyOne ==
    [][ /\ \A id \in 0..(MaxNow + 1) :
              (\A i \in 1..Len(capturedImages) : capturedImages[i] # id)
                  => removeImage(capturedImages, id) = capturedImages
        /\ last' = "removeImage" =>
              \E i \in 1..Len(capturedImages) :
                  capturedImages' =
                      SubSeq(capturedImages, 1, i - 1)
                          \o SubSeq(capturedImages, i + 1, Len(capturedImages))
      ]_vars

\* C16: a failed POST /verify of the poller (non-2xx or network error) sets
\* the error shown to the user and appends no record.
C16_VerifyErrorShown ==
    [][ last' = "verifyFailed" =>
            (error' = "verify" /\ attendanceLog' = attendanceLog) ]_vars

C16_Witness ==
    /\ last = "verifyFailed"
    /\ error = "verify"
    /\ ~processing

\* C17: a verified = false response shows the endpoint's message as an error
\* toast, appends no record and leaves the capturing flag, the timer and the
\* camera as they were.
C17_NotVerifiedKeepsCapturing ==
    [][ last' = "notVerified" =>
            /\ toast' = "error"
            /\ UNCHANGED << attendanceLog, isCapturing, intervalRef,
                            armedTimers, streamRef, liveStreams >> ]_vars

C17_Witness ==
    /\ last = "notVerified"
    /\ toast = "error"
    /\ isCapturing
    /\ intervalRef \in armedTimers
    /\ streamRef \in liveStreams
    /\ attendanceLog = << >>

\* C18: every step leaves the attendance log as it is or puts one new record
\* in front of the records held, which keep their order.
C18_LogNewestFirst ==
    [][ \/ attendanceLog' = attendanceLog
        \/ /\ Len(attendanceLog') = Len(attendanceLog) + 1
           /\ Tail(attendanceLog') = attendanceLog ]_vars

C18_Witness ==
    /\ last = "verified"
    /\ Len(attendanceLog) = 2
    /\ attendanceLog[1] # attendanceLog[2]

\* C19: captureImage called with ten or more images pending reports the
\* capacity message, requests no frame encoding and leaves the list as it is.
C19_CaptureAtCapIsNoOp ==
    [][ (last' = "captureImage" /\ Len(capturedImages) >= MaxImages) =>
            /\ message' = "maxImages"
            /\ pendingBlobs' = pendingBlobs
            /\ capturedImages' = capturedImages
            /\ objectUrls' = objectUrls ]_vars

C19_Witness ==
    /\ last = "captureImage"
    /\ message = "maxImages"
    /\ Len(capturedImages) = MaxImages

\* C12: as soon as one request of a registerUser call with two or more
\* images has failed, the call has reported an error (message and loading
\* flag at that step), and it reports no success afterwards.
C12_AnyFailureIsFailure ==
    [][ (Len(requests') >= 2 /\ AnyFailed(requests')) =>
            /\ regOutcome' = "error"
            /\ regOutcome = "waiting" =>
                   (message' = "registerError" /\ ~isLoading') ]_vars

C12_Witness ==
    /\ Len(requests) = 2
    /\ AnyFailed(requests)
    /\ \E i \in 1..2 : requests[i].status = "ok"
    /\ regOutcome = "error"

\* C13: while a request of a registerUser call is in flight the call has
\* reported no outcome.
C13_OutcomeAfterAllSettled ==
    regOutcome \in {"success", "error"} => ~AnyPending(requests)

C15_InvalidRegisterRefused ==
    [][ (last' = "registerUser"
            /\ (userId \in {"", " "} \/ capturedImages = << >>)) =>
            /\ message' \in {"needUserId", "needImage"}
            /\ UNCHANGED << requests, regOutcome, capturedImages, userId,
                            isLoading >> ]_vars

C15_Witness ==
    /\ last = "registerUser"
    /\ message = "needUserId"
    /\ userId = " "
    /\ capturedImages # << >>
    /\ requests = << >>

\* C20: resetForm clears the user id, the pending list and the verification
\* result and leaves the camera session as it was.
C20_ResetClearsForm ==
    [][ last' = "resetForm" =>
            /\ userId' = ""
            /\ capturedImages' = << >>
            /\ verificationResult' = "null"
            /\ UNCHANGED camVars ]_vars

C20_Witness ==
    /\ last = "resetForm"
    /\ userId = ""
    /\ capturedImages = << >>
    /\ verificationResult = "null"
    /\ objectUrls > 0
    /\ stremLoaded
    /\ videoStreamRef \in regLive

\* C21: whenever frame capture yields no image, the caller skips the capture:
\* a poller tick and verifyFace submit nothing to /verify and show no error.
C21_CaptureSkippedSilent ==
    [][ /\ (last' = "captureSkipped" \/ (last' = "tick" /\ encoding' = encoding))
            => /\ inflight' = inflight
               /\ error' = error
               /\ toast' = toast
        /\ (\/ (verifyPhase = "toBlob" /\ verifyPhase' = "idle")
            \/ (last' = "verifyFace" /\ videoStreamRef # 0 /\ verifyPhase' = "idle"))
            => /\ message' \notin {"verifyError", "noCamera"}
               /\ verifyPhase' # "fetch" ]_vars

\* C22: in the attendance view every armed interval timer is the one whose
\* handle intervalRef holds, so at most one timer is armed.
C22_ArmedTimerIsReferenced == armedTimers \subseteq {intervalRef}

\* C23: in the registration view, once no getUserMedia call is pending, the
\* live stream held in videoStreamRef was acquired for the selected
\* facingMode.
C23_StreamMatchesFacingMode ==
    ( /\ view = "mounted"
      /\ \A a \in Acqs : acq[a] # "pending"
      /\ videoStreamRef # 0
      /\ videoStreamRef \in regLive )
        => facingModeOf(videoStreamRef) = facingMode

\* C24: the loading flag is set only while a request or an encoding of the
\* registerUser or verifyFace call that set it is unsettled; once the call's
\* work has settled, or the call has left early, isLoading is false again.
C24_LoadingCleared ==
    isLoading =>
        \/ (regOutcome = "waiting" /\ AnyPending(requests))
        \/ verifyPhase \in {"toBlob", "fetch"}

C24_Witness ==
    /\ last \in {"registerOk", "registerFailed", "verifyAnswered",
                 "verifyBlobReady"}
    /\ ~isLoading
    /\ verifyPhase = "idle"
    /\ ~AnyPending(requests)
    /\ regOutcome \in {"success", "error"}
    /\ verificationResult # "null"

====
